---- MODULE Spec2Model ----
(***************************************************************************)
(* ms2deepscore: the spectrum binning subsystem.                           *)
(*                                                                         *)
(* A SpectrumBinnerCustom session (its quantization parameters and, once   *)
(* fit, its vocabulary) driven by a caller through __init__,               *)
(* fit_transform, transform, to_json and from_json.                        *)
(*                                                                         *)
(* Numbers.  m/z values and raw intensities are small naturals.  The       *)
(* exponent peak_scaling is kept in units of 1/2 (0, 1, 2 stand for 0.0,   *)
(* 0.5, 1.0) and the raw intensities are perfect squares, so that          *)
(* intensity ** peak_scaling is a natural number.  A quotient of two sums  *)
(* of weights is kept as the exact fraction [num, den]; den = 0 is the     *)
(* 0/0 that numpy evaluates to NaN.                                        *)
(*                                                                         *)
(* Optional values (Python's None) are sequences of length 0 or 1.         *)
(***************************************************************************)
EXTENDS Integers, Sequences, FiniteSets, TLC

VARIABLES
    session,    \* <<>>: no object; <<s>>: the SpectrumBinnerCustom object s
    json_str,   \* <<>> or <<d>>: the document of the last successful to_json
    pc,         \* "idle": the caller may call; "returned": a call has ended
    op,         \* the operation of the last call
    arg,        \* the spectrum collection handed to the last call
    locals,     \* transform's locals peak_lists, missing_fractions at its end
    ret,        \* what the last call gave its caller: a value or an exception
    vocabulary_writes,  \* history: how often the session's vocabulary was
                        \* assigned: "none", "once", "more"
    lin         \* the last call of a function of spectrum_binning_linear:
                \* its name, its arguments, what it gave

vars == <<session, json_str, pc, op, arg, locals, ret, vocabulary_writes, lin>>

-----------------------------------------------------------------------------
(* Bounds and input domains *)

\* The longest spectrum collection handed to fit_transform or transform.
MaxSpectra == 2

None == <<>>
Some(v) == <<v>>

\* SpectrumBinnerCustom.__init__ defaults (peak_scaling = 0.5 in units of 1/2).
DefaultPeakScaling == 1
DefaultAllowedMissingPercentage == 0

PeakScalings == {0, 1, 2}
AllowedMissingPercentages == {0, 50, 100}

\* Bin edges a caller may hand to __init__: two unit-2 bins [0,2), [2,4); an
\* empty edge sequence; edges that are not strictly increasing.
EdgeChoices == {<<0, 2, 4>>, <<>>, <<2, 2>>, <<4, 0>>}
ContainerTypes == {"ndarray", "list"}

Spectrum(mz, intensities, inchikey) ==
    [mz |-> mz, intensities |-> intensities,
     metadata |-> [inchikey |-> inchikey, smiles |-> "C"]]

\* The spectra a caller may pass (m/z within [0, 4)).
SpectrumPool ==
    { Spectrum(<<>>, <<>>, "k0"),          \* no peaks
      Spectrum(<<0>>, <<1>>, "k1"),        \* one peak, bin 0
      Spectrum(<<2>>, <<4>>, "k2"),        \* one peak, bin 1
      Spectrum(<<0, 1>>, <<1, 4>>, "k3"),  \* two peaks in the same bin
      Spectrum(<<0, 2>>, <<1, 1>>, "k4"),  \* two bins, equal weights
      Spectrum(<<3, 0>>, <<4, 1>>, "k5"),  \* two bins, met in descending order
      Spectrum(<<1>>, <<0>>, "k6"),        \* one peak of intensity 0
      Spectrum(<<0, 2, 1>>, <<1, 4, 1>>, "k7") } \* same bin, not adjacent

SeqsUpTo(S, n) == UNION { [1..k -> S] : k \in 0..n }

Collections == SeqsUpTo(SpectrumPool, MaxSpectra)

-----------------------------------------------------------------------------
(* Generic helpers *)

Range(s) == { s[i] : i \in 1..Len(s) }

RECURSIVE SumSeq(_)
SumSeq(s) == IF s = <<>> THEN 0 ELSE s[1] + SumSeq(Tail(s))

Min(S) == CHOOSE x \in S : \A y \in S : x <= y

\* sorted(S) for a finite set of integers
RECURSIVE Sorted(_)
Sorted(S) == IF S = {} THEN <<>> ELSE <<Min(S)>> \o Sorted(S \ {Min(S)})

\* s[idx] for an index list idx (numpy fancy indexing)
Take(s, idx) == [k \in 1..Len(idx) |-> s[idx[k]]]

\* the exact quotient num/den; den = 0 only arises as 0/0 (NaN)
Frac(num, den) == [num |-> num, den |-> den]
One == Frac(1, 1)
IsNaN(f) == f.den = 0
\* 100 * f <= p in IEEE arithmetic: a comparison with NaN is false
Leq100(f, p) == ~IsNaN(f) /\ 100 * f.num <= p * f.den

\* x ** peak_scaling, peak_scaling in units of 1/2, x a perfect square;
\* numpy gives 0 ** 0 = 1
Isqrt(x) == CHOOSE r \in 0..x : r * r = x
Pow(x, peak_scaling) ==
    CASE peak_scaling = 0 -> 1
      [] peak_scaling = 1 -> Isqrt(x)
      [] peak_scaling = 2 -> x

-----------------------------------------------------------------------------
(* Quantizer, custom edges *)

\* The 0-based bin of mass m: the i with E[i] <= m < E[i+1]; no value when
\* no bin holds m.
bin_of(m, mz_bins) ==
    LET hits == { i \in 1..(Len(mz_bins) - 1) :
                    mz_bins[i] <= m /\ m < mz_bins[i + 1] }
    IN  IF hits = {} THEN None ELSE Some(Min(hits) - 1)

\* The indices of the peaks that map to a bin (the others are excluded
\* before binning), in peak order.
binnable_idx(mz, mz_bins) ==
    Sorted({ i \in 1..Len(mz) : bin_of(mz[i], mz_bins) # None })

\* The bin numbers of the peaks of one spectrum, in peak order.
bin_number_array_custom(mz, mz_bins) ==
    LET idx == binnable_idx(mz, mz_bins)
    IN  [k \in 1..Len(idx) |-> bin_of(mz[idx[k]], mz_bins)[1]]

-----------------------------------------------------------------------------
(* Vocabulary builder *)

\* The distinct bin numbers of all the bin arrays, as in the order a scan
\* meets them (what the builder would keep without its sort).
RECURSIVE first_seen(_, _)
first_seen(bins, seen) ==
    IF bins = <<>> THEN seen
    ELSE first_seen(Tail(bins),
                    IF bins[1] \in Range(seen) THEN seen
                    ELSE Append(seen, bins[1]))

RECURSIVE Concat(_)
Concat(ss) == IF ss = <<>> THEN <<>> ELSE ss[1] \o Concat(Tail(ss))

unique_peaks_unsorted(docs) == first_seen(Concat(docs), <<>>)

\* unique_peaks = set(); add every bin number; sorted(unique_peaks)
unique_peaks_sorted(docs) == Sorted(UNION { Range(docs[i]) : i \in 1..Len(docs) })

\* class_values[item] = i for i, item in enumerate(unique_peaks)
class_values_of(unique_peaks) ==
    [b \in Range(unique_peaks) |->
        (CHOOSE i \in 1..Len(unique_peaks) : unique_peaks[i] = b) - 1]

unique_peaks_custom(spectrums, mz_bins) ==
    LET docs == [i \in 1..Len(spectrums) |->
                    bin_number_array_custom(spectrums[i].mz, mz_bins)]
        unique_peaks == unique_peaks_sorted(docs)
    IN  [class_values |-> class_values_of(unique_peaks),
         unique_peaks |-> unique_peaks]

-----------------------------------------------------------------------------
(* Peak-list encoder *)

\* The loop body with zip(doc_bow, weights): the weights not selected by
\* idx_in_vocab.
peak_list_entry_unselected_weights(doc, weights, peaks_vocab) ==
    LET keys == DOMAIN peaks_vocab[1]
        idx_in_vocab == Sorted({ i \in 1..Len(doc) : doc[i] \in keys })
        idx_not_in_vocab ==
            Sorted({ i \in 1..Len(doc) : i \notin Range(idx_in_vocab) })
    IN  [peak_list |-> [k \in 1..Len(idx_in_vocab) |->
                            <<peaks_vocab[1][doc[idx_in_vocab[k]]], weights[k]>>],
         missing_fraction |->
            IF Len(idx_in_vocab) = 0 THEN One
            ELSE Frac(SumSeq(Take(weights, idx_not_in_vocab)), SumSeq(weights))]

\* One pass of the encoder's loop body: the bin numbers doc and the weights
\* of one spectrum against the vocabulary peaks_vocab (None, or a function
\* from bin number to position).  peaks_vocab.keys() is evaluated once per
\* bin number, so never for a spectrum without one.
peak_list_entry(doc, weights, peaks_vocab) ==
    LET keys == DOMAIN peaks_vocab[1]
        idx_in_vocab == Sorted({ i \in 1..Len(doc) : doc[i] \in keys })
        idx_not_in_vocab ==
            Sorted({ i \in 1..Len(doc) : i \notin Range(idx_in_vocab) })
        doc_bow ==
            [k \in 1..Len(idx_in_vocab) |-> peaks_vocab[1][doc[idx_in_vocab[k]]]]
        w_in == Take(weights, idx_in_vocab)
    IN  [peak_list |-> [k \in 1..Len(idx_in_vocab) |-> <<doc_bow[k], w_in[k]>>],
         missing_fraction |->
            IF Len(idx_in_vocab) = 0 THEN One
            ELSE Frac(SumSeq(Take(weights, idx_not_in_vocab)), SumSeq(weights))]

\* With peaks_vocab = None, `x in peaks_vocab.keys()` raises AttributeError
\* at the first spectrum that has a bin number.
create_peak_list_custom(spectrums, peaks_vocab, mz_bins, peak_scaling) ==
    LET doc(i) == bin_number_array_custom(spectrums[i].mz, mz_bins)
        weights(i) ==
            LET idx == binnable_idx(spectrums[i].mz, mz_bins)
            IN  [k \in 1..Len(idx) |->
                    Pow(spectrums[i].intensities[idx[k]], peak_scaling)]
        entry(i) == peak_list_entry(doc(i), weights(i), peaks_vocab)
    IN  IF peaks_vocab = None /\ \E i \in 1..Len(spectrums) : Len(doc(i)) > 0
        THEN [raised |-> TRUE, peak_lists |-> <<>>, missing_fractions |-> <<>>]
        ELSE [raised |-> FALSE,
              peak_lists |-> [i \in 1..Len(spectrums) |-> entry(i).peak_list],
              missing_fractions |->
                  [i \in 1..Len(spectrums) |-> entry(i).missing_fraction]]

-----------------------------------------------------------------------------
(* Binned-spectrum assembler *)

\* Merge (position, weight) pairs into a position -> weight mapping, the
\* weights of a repeated position added.
create_peak_dict(peak_list) ==
    [p \in { peak_list[k][1] : k \in 1..Len(peak_list) } |->
        SumSeq(Take([k \in 1..Len(peak_list) |-> peak_list[k][2]],
                    Sorted({ k \in 1..Len(peak_list) : peak_list[k][1] = p })))]

\* dict(peak_list): the last pair of a position wins
last_wins_dict(peak_list) ==
    [p \in { peak_list[k][1] : k \in 1..Len(peak_list) } |->
        LET ks == { k \in 1..Len(peak_list) : peak_list[k][1] = p }
        IN  peak_list[CHOOSE k \in ks : \A j \in ks : j <= k][2]]

binned_spectrum_overwriting(peak_list, spectrum) ==
    [binned_peaks |-> last_wins_dict(peak_list),
     metadata |-> [inchikey |-> spectrum.metadata.inchikey]]

binned_spectrum_all_metadata(peak_list, spectrum) ==
    [binned_peaks |-> create_peak_dict(peak_list),
     metadata |-> spectrum.metadata]

\* BinnedSpectrum(binned_peaks=create_peak_dict(peak_list),
\*                metadata={"inchikey": input_spectrums[i].get("inchikey")})
binned_spectrum(peak_list, spectrum) ==
    [binned_peaks |-> create_peak_dict(peak_list),
     metadata |-> [inchikey |-> spectrum.metadata.inchikey]]

gate_strict(missing_fraction, allowed_missing_percentage) ==
    ~IsNaN(missing_fraction)
    /\ 100 * missing_fraction.num < allowed_missing_percentage * missing_fraction.den

\* assert 100*missing_fractions[i] <= self.allowed_missing_percentage
gate(missing_fraction, allowed_missing_percentage) ==
    Leq100(missing_fraction, allowed_missing_percentage)

\* What a call gives its caller.
NoRet == [kind |-> "none", value |-> <<>>, error |-> "", at |-> 0, fraction |-> One]
Return(value) == [NoRet EXCEPT !.kind = "ok", !.value = value]
Raise(error) == [NoRet EXCEPT !.kind = "error", !.error = error]
\* AssertionError raised in pass `at` of the loop; its message holds the
\* percentage 100*fraction
RaiseAssertion(at, fraction) ==
    [NoRet EXCEPT !.kind = "error", !.error = "AssertionError",
                  !.at = at, !.fraction = fraction]

\* The loop that keeps the spectra passing the gate and drops the others.
RECURSIVE assemble_skipping(_, _, _, _)
assemble_skipping(peak_lists, missing_fractions, input_spectrums, allowed) ==
    IF peak_lists = <<>> THEN Return(<<>>)
    ELSE LET rest == assemble_skipping(Tail(peak_lists), Tail(missing_fractions),
                                       Tail(input_spectrums), allowed)
         IN  IF gate(missing_fractions[1], allowed)
             THEN Return(<<binned_spectrum(peak_lists[1], input_spectrums[1])>>
                         \o rest.value)
             ELSE rest

\* The loop of transform: passes i = 1, 2, ... in input order; the first
\* failed assertion ends the call, spectrums_binned is lost with the frame.
RECURSIVE assemble_from(_, _, _, _, _, _)
assemble_from(i, spectrums_binned, peak_lists, missing_fractions, input_spectrums, allowed) ==
    IF i > Len(peak_lists) THEN Return(spectrums_binned)
    ELSE IF ~gate(missing_fractions[i], allowed)
         THEN RaiseAssertion(i, missing_fractions[i])
         ELSE assemble_from(i + 1,
                  Append(spectrums_binned,
                         binned_spectrum(peak_lists[i], input_spectrums[i])),
                  peak_lists, missing_fractions, input_spectrums, allowed)

assemble(peak_lists, missing_fractions, input_spectrums, allowed) ==
    assemble_from(1, <<>>, peak_lists, missing_fractions, input_spectrums, allowed)

\* SpectrumBinnerCustom.transform on the object s: what it gives its caller
\* and its locals when it ends.
transform_result(input_spectrums, s) ==
    LET enc == create_peak_list_custom(input_spectrums, s.peak_to_position,
                                       s.mz_bins.data, s.peak_scaling)
    IN  IF enc.raised
        THEN [ret |-> Raise("AttributeError"), locals |-> None]
        ELSE [ret |-> assemble(enc.peak_lists, enc.missing_fractions,
                               input_spectrums, s.allowed_missing_percentage),
              locals |-> Some([peak_lists |-> enc.peak_lists,
                               missing_fractions |-> enc.missing_fractions])]

-----------------------------------------------------------------------------
(* The binner session *)

\* The positional parameters __init__ takes after self: mz_bins,
\* peak_scaling, allowed_missing_percentage.
InitMaxArgs == 3

\* SpectrumBinnerCustom(*args): the new object, or the exception raised.
\* mz_bins is [type, data]: the container handed in and its elements.
\* Python binds the arguments before the body runs; mz_bins[-1] of an empty
\* sequence raises IndexError.
init(args) ==
    IF Len(args) < 1 \/ Len(args) > InitMaxArgs THEN Raise("TypeError")
    ELSE LET mz_bins == args[1]
             peak_scaling == IF Len(args) >= 2 THEN args[2] ELSE DefaultPeakScaling
             allowed == IF Len(args) >= 3 THEN args[3]
                        ELSE DefaultAllowedMissingPercentage
         IN  IF Len(mz_bins.data) = 0 THEN Raise("IndexError")
             ELSE Return(<<[number_of_bins |-> Len(mz_bins.data) - 1,
                            mz_bins |-> mz_bins,
                            mz_max |-> mz_bins.data[Len(mz_bins.data)],
                            mz_min |-> mz_bins.data[1],
                            peak_scaling |-> peak_scaling,
                            allowed_missing_percentage |-> allowed,
                            peak_to_position |-> None,
                            known_bins |-> None]>>)

\* json.dumps(self.__dict__).  json.dumps raises TypeError on a numpy array
\* (mz_bins handed in as np.ndarray) and on numpy integers (the bin numbers
\* of a non-empty vocabulary come from ndarray.astype(int)).  Object keys
\* are written as strings.
to_json_result(s) ==
    IF s.mz_bins.type = "ndarray"
       \/ (s.known_bins # None /\ Len(s.known_bins[1]) > 0)
    THEN Raise("TypeError")
    ELSE Return(<<[s EXCEPT !.peak_to_position =
                    IF s.peak_to_position = None THEN None
                    ELSE Some([k \in { ToString(b) : b \in DOMAIN s.peak_to_position[1] }
                                 |-> s.peak_to_position[1][
                                        CHOOSE b \in DOMAIN s.peak_to_position[1] :
                                            ToString(b) = k]])]>>)

\* int(key) for the keys of the document
int_of(key) == CHOOSE n \in 0..99 : ToString(n) = key

\* SpectrumBinnerCustom.from_json(json_str): cls(...) is called with five
\* positional arguments.
from_json_result(binner_dict) ==
    LET made == init(<<binner_dict.number_of_bins,
                       binner_dict.mz_max, binner_dict.mz_min,
                       binner_dict.peak_scaling,
                       binner_dict.allowed_missing_percentage>>)
    IN  IF made.kind = "error" THEN made
        ELSE IF binner_dict.peak_to_position = None THEN Raise("AttributeError")
        ELSE Return(<<[made.value[1] EXCEPT
                !.peak_to_position =
                    Some([n \in { int_of(k) : k \in DOMAIN binner_dict.peak_to_position[1] }
                            |-> binner_dict.peak_to_position[1][ToString(n)]]),
                !.known_bins = binner_dict.known_bins]>>)

-----------------------------------------------------------------------------
(* Linear binning: bins of linearly growing width *)

\* Masses and min_bin_size are naturals, the slope is a fraction >= 0, and
\* every mass is >= mz_min (below it the square root may be taken of a
\* negative number).

\* The largest mass of a spectrum handed to the linear functions.
MaxMass == 6

\* (2*(mz - mz_min)/slope + (min_bin_size/slope + 0.5)**2)**0.5
\*      - min_bin_size/slope - 0.5, cut to an integer: with slope = p/q > 0
\* the largest n with (n + w0/s + 1/2)^2 <= 2*d/s + (w0/s + 1/2)^2, that is
\* (2np + 2*w0*q + p)^2 <= 8dpq + (2*w0*q + p)^2.
\* slope = 0: mz/min_bin_size - mz_min*min_bin_size, cut towards zero.
bin_number_one_linear(mz, min_bin_size, slope, mz_min) ==
    IF slope.num # 0
    THEN LET p == slope.num
             q == slope.den
             d == mz - mz_min
             c == 2 * min_bin_size * q + p
             Below(n) == (2 * n * p + c) * (2 * n * p + c) <= 8 * d * p * q + c * c
         IN  CHOOSE n \in 0..d : Below(n) /\ ~Below(n + 1)
    ELSE LET x == mz - mz_min * min_bin_size * min_bin_size
         IN  IF x >= 0 THEN x \div min_bin_size ELSE -((-x) \div min_bin_size)

\* bin_numbers.astype(int) of the whole mass array
bin_number_array_linear(mz, min_bin_size, slope, mz_min) ==
    [k \in 1..Len(mz) |-> bin_number_one_linear(mz[k], min_bin_size, slope, mz_min)]

\* ((mz_max - mz_min) - min_bin_size * number)/((number-1) * number/2);
\* a float division by 0.0 raises ZeroDivisionError
set_slope_linear(number, min_bin_size, mz_min, mz_max) ==
    IF (number - 1) * number = 0 THEN Raise("ZeroDivisionError")
    ELSE Return(<<Frac((mz_max - mz_min) - min_bin_size * number,
                       ((number - 1) * number) \div 2)>>)

\* unique_peaks.add(mz) left outside the inner loop: only the last bin
\* number of each spectrum is kept.
unique_peaks_linear_last_only(spectrums, min_bin_size, slope, mz_min) ==
    LET doc(i) == bin_number_array_linear(spectrums[i].mz, min_bin_size, slope, mz_min)
        docs == [i \in 1..Len(spectrums) |->
                    IF Len(doc(i)) = 0 THEN <<>> ELSE <<doc(i)[Len(doc(i))]>>]
        unique_peaks == unique_peaks_sorted(docs)
    IN  [class_values |-> class_values_of(unique_peaks),
         unique_peaks |-> unique_peaks]

unique_peaks_linear(spectrums, min_bin_size, slope, mz_min) ==
    LET docs == [i \in 1..Len(spectrums) |->
                    bin_number_array_linear(spectrums[i].mz, min_bin_size, slope, mz_min)]
        unique_peaks == unique_peaks_sorted(docs)
    IN  [class_values |-> class_values_of(unique_peaks),
         unique_peaks |-> unique_peaks]

\* peaks_vocab is a dictionary here (a function from bin number to position)
create_peak_list_linear(spectrums, peaks_vocab, min_bin_size, slope, mz_min, peak_scaling) ==
    LET entry(i) ==
            peak_list_entry(
                bin_number_array_linear(spectrums[i].mz, min_bin_size, slope, mz_min),
                [k \in 1..Len(spectrums[i].mz) |->
                    Pow(spectrums[i].intensities[k], peak_scaling)],
                Some(peaks_vocab))
    IN  [peak_lists |-> [i \in 1..Len(spectrums) |-> entry(i).peak_list],
         missing_fractions |-> [i \in 1..Len(spectrums) |-> entry(i).missing_fraction]]

\* Arguments of the linear functions.
MinBinSizes == {1, 2}
Slopes == {Frac(0, 1), Frac(1, 2), Frac(1, 1), Frac(2, 1)}
MzMins == {0, 1}
BinCounts == {1, 2, 3}
MassArrays == SeqsUpTo(0..MaxMass, 2)

\* No function of spectrum_binning_linear was called yet.
NoCall == [op |-> "none", args |-> <<>>, out |-> <<>>]

-----------------------------------------------------------------------------
(* Operations *)

Init ==
    /\ session = None
    /\ json_str = None
    /\ pc = "idle"
    /\ op = "none"
    /\ arg = <<>>
    /\ locals = None
    /\ ret = NoRet
    /\ vocabulary_writes = "none"
    /\ lin = NoCall

\* binner = SpectrumBinnerCustom(mz_bins[, peak_scaling[, allowed_missing_percentage]])
construct ==
    /\ pc = "idle"
    /\ session = None
    /\ \E data \in EdgeChoices, type \in ContainerTypes, nargs \in 1..InitMaxArgs,
          peak_scaling \in PeakScalings, allowed \in AllowedMissingPercentages :
          LET args == SubSeq(<<[type |-> type, data |-> data], peak_scaling, allowed>>,
                             1, nargs)
              made == init(args)
          IN  /\ session' = IF made.kind = "ok" THEN Some(made.value[1]) ELSE None
              /\ ret' = [made EXCEPT !.value = <<>>]
    /\ pc' = "returned"
    /\ op' = "init"
    /\ UNCHANGED <<lin, json_str, arg, locals, vocabulary_writes>>

\* binner.fit_transform(spectrums)
fit_transform ==
    /\ pc = "idle"
    /\ session # None
    /\ \E spectrums \in Collections :
          LET built == unique_peaks_custom(spectrums, session[1].mz_bins.data)
              fit == [session[1] EXCEPT
                        !.peak_to_position = Some(built.class_values),
                        !.known_bins = Some(built.unique_peaks)]
              done == transform_result(spectrums, fit)
          IN  /\ session' = Some(fit)
              /\ arg' = spectrums
              /\ locals' = done.locals
              /\ ret' = done.ret
    /\ pc' = "returned"
    /\ op' = "fit_transform"
    /\ vocabulary_writes' = IF vocabulary_writes = "none" THEN "once" ELSE "more"
    /\ UNCHANGED <<lin, json_str>>

\* A transform that rebuilds the vocabulary from its input, as fit_transform
\* does.
transform_refitting ==
    /\ pc = "idle"
    /\ session # None
    /\ \E input_spectrums \in Collections :
          LET built == unique_peaks_custom(input_spectrums, session[1].mz_bins.data)
              fit == [session[1] EXCEPT
                        !.peak_to_position = Some(built.class_values),
                        !.known_bins = Some(built.unique_peaks)]
              done == transform_result(input_spectrums, fit)
          IN  /\ session' = Some(fit)
              /\ arg' = input_spectrums
              /\ locals' = done.locals
              /\ ret' = done.ret
    /\ pc' = "returned"
    /\ op' = "transform"
    /\ UNCHANGED <<lin, json_str, vocabulary_writes>>

\* A transform that, once its result is made, takes the bins of its input
\* into the vocabulary.
transform_learning ==
    /\ pc = "idle"
    /\ session # None
    /\ \E input_spectrums \in Collections :
          LET done == transform_result(input_spectrums, session[1])
              built == unique_peaks_custom(input_spectrums, session[1].mz_bins.data)
          IN  /\ arg' = input_spectrums
              /\ locals' = done.locals
              /\ ret' = done.ret
              /\ session' = Some([session[1] EXCEPT
                                    !.peak_to_position = Some(built.class_values),
                                    !.known_bins = Some(built.unique_peaks)])
    /\ pc' = "returned"
    /\ op' = "transform"
    /\ UNCHANGED <<lin, json_str, vocabulary_writes>>

\* binner.transform(input_spectrums)
transform ==
    /\ pc = "idle"
    /\ session # None
    /\ \E input_spectrums \in Collections :
          LET done == transform_result(input_spectrums, session[1])
          IN  /\ arg' = input_spectrums
              /\ locals' = done.locals
              /\ ret' = done.ret
    /\ pc' = "returned"
    /\ op' = "transform"
    /\ UNCHANGED <<lin, session, json_str, vocabulary_writes>>

\* json_str = binner.to_json()
to_json ==
    /\ pc = "idle"
    /\ session # None
    /\ LET done == to_json_result(session[1])
       IN  /\ ret' = done
           /\ json_str' = IF done.kind = "ok" THEN Some(done.value[1]) ELSE json_str
    /\ pc' = "returned"
    /\ op' = "to_json"
    /\ UNCHANGED <<lin, session, arg, locals, vocabulary_writes>>

\* SpectrumBinnerCustom.from_json(json_str): a class method, the session the
\* document came from is left as it is
from_json ==
    /\ pc = "idle"
    /\ json_str # None
    /\ ret' = from_json_result(json_str[1])
    /\ pc' = "returned"
    /\ op' = "from_json"
    /\ UNCHANGED <<lin, session, json_str, arg, locals, vocabulary_writes>>

\* The caller takes the result (or handles the exception) and goes on.
caller_continues ==
    /\ pc = "returned"
    /\ pc' = "idle"
    /\ op' = "none"
    /\ arg' = <<>>
    /\ locals' = None
    /\ ret' = NoRet
    /\ UNCHANGED <<lin, session, json_str, vocabulary_writes>>

\* The caller calls binner.transform once more with the collection of the
\* transform call that has just ended.
transform_again ==
    /\ pc = "returned"
    /\ op = "transform"
    /\ LET done == transform_result(arg, session[1])
       IN  /\ locals' = done.locals
           /\ ret' = done.ret
    /\ pc' = "returned_again"
    /\ UNCHANGED <<lin, session, json_str, op, arg, vocabulary_writes>>

caller_continues_after_repeat ==
    /\ pc = "returned_again"
    /\ pc' = "idle"
    /\ op' = "none"
    /\ arg' = <<>>
    /\ locals' = None
    /\ ret' = NoRet
    /\ UNCHANGED <<lin, session, json_str, vocabulary_writes>>

Next ==
    \/ construct
    \/ fit_transform
    \/ transform
    \/ to_json
    \/ from_json
    \/ caller_continues

Spec == Init /\ [][Next]_vars

\* The caller that also repeats transform calls.
NextRepeat ==
    \/ construct
    \/ fit_transform
    \/ transform
    \/ transform_again
    \/ caller_continues
    \/ caller_continues_after_repeat

SpecRepeat == Init /\ [][NextRepeat]_vars

\* bins = bin_number_array_linear(mz, min_bin_size, slope, mz_min)
call_bin_number_array_linear ==
    /\ lin.op = "none"
    /\ \E mz \in MassArrays, min_bin_size \in MinBinSizes, slope \in Slopes,
          mz_min \in MzMins :
          /\ \A k \in 1..Len(mz) : mz[k] >= mz_min
          /\ lin' = [op |-> "bin_number_array_linear",
                     args |-> [mz |-> mz, min_bin_size |-> min_bin_size,
                               slope |-> slope, mz_min |-> mz_min],
                     out |-> bin_number_array_linear(mz, min_bin_size, slope, mz_min)]
    /\ UNCHANGED <<session, json_str, pc, op, arg, locals, ret, vocabulary_writes>>

\* slope = set_slope_linear(number, min_bin_size, mz_min, mz_max), and the
\* bin numbers this slope gives to mz_max and to the mass before it
call_set_slope_linear ==
    /\ lin.op = "none"
    /\ \E number \in BinCounts, min_bin_size \in MinBinSizes, mz_min \in MzMins,
          mz_max \in 1..MaxMass :
          /\ mz_min < mz_max
          /\ LET made == set_slope_linear(number, min_bin_size, mz_min, mz_max)
             IN  lin' = [op |-> "set_slope_linear",
                         args |-> [number |-> number, min_bin_size |-> min_bin_size,
                                   mz_min |-> mz_min, mz_max |-> mz_max],
                         out |-> IF made.kind = "ok" /\ made.value[1].num >= 0
                                 THEN [made EXCEPT !.value =
                                         <<made.value[1],
                                           bin_number_array_linear(
                                               <<mz_max - 1, mz_max>>, min_bin_size,
                                               made.value[1], mz_min)>>]
                                 ELSE made]
    /\ UNCHANGED <<session, json_str, pc, op, arg, locals, ret, vocabulary_writes>>

\* peaks_vocab, _ = unique_peaks_linear(spectrums, ...);
\* create_peak_list_linear(spectrums, peaks_vocab, ...)
call_fit_encode_linear ==
    /\ lin.op = "none"
    /\ \E spectrums \in Collections, min_bin_size \in MinBinSizes, slope \in Slopes,
          mz_min \in MzMins, peak_scaling \in PeakScalings :
          /\ \A i \in 1..Len(spectrums) :
                \A k \in 1..Len(spectrums[i].mz) : spectrums[i].mz[k] >= mz_min
          /\ LET built == unique_peaks_linear(spectrums, min_bin_size, slope, mz_min)
                 enc == create_peak_list_linear(spectrums, built.class_values,
                            min_bin_size, slope, mz_min, peak_scaling)
             IN  lin' = [op |-> "fit_encode_linear",
                         args |-> [spectrums |-> spectrums, min_bin_size |-> min_bin_size,
                                   slope |-> slope, mz_min |-> mz_min,
                                   peak_scaling |-> peak_scaling],
                         out |-> [class_values |-> built.class_values,
                                  unique_peaks |-> built.unique_peaks,
                                  peak_lists |-> enc.peak_lists,
                                  missing_fractions |-> enc.missing_fractions]]
    /\ UNCHANGED <<session, json_str, pc, op, arg, locals, ret, vocabulary_writes>>

\* The function has returned; the caller may call another one.
linear_call_returns ==
    /\ lin.op # "none"
    /\ lin' = NoCall
    /\ UNCHANGED <<session, json_str, pc, op, arg, locals, ret, vocabulary_writes>>

NextLinear ==
    \/ linear_call_returns
    \/ call_bin_number_array_linear
    \/ call_set_slope_linear
    \/ call_fit_encode_linear

SpecLinear == Init /\ [][NextLinear]_vars

-----------------------------------------------------------------------------
(* Properties *)

\* A call of transform, alone or at the end of fit_transform, has ended.
TransformEnded == pc = "returned" /\ op \in {"transform", "fit_transform"}
IsFit == session # None /\ session[1].peak_to_position # None
Vocabulary(s) == <<s.peak_to_position, s.known_bins>>

\* The bin numbers and the weights of spectrum i of the last call's input.
ArgBins(i) == bin_number_array_custom(arg[i].mz, session[1].mz_bins.data)
ArgWeights(i) ==
    LET idx == binnable_idx(arg[i].mz, session[1].mz_bins.data)
    IN  [k \in 1..Len(idx) |-> Pow(arg[i].intensities[idx[k]], session[1].peak_scaling)]
\* The sum of the weights of the peaks of spectrum i whose bin satisfies P.
WeightWhere(i, P(_)) ==
    SumSeq([k \in 1..Len(ArgBins(i)) |->
                IF P(ArgBins(i)[k]) THEN ArgWeights(i)[k] ELSE 0])
Exceeds(f, allowed) == f.den = 0 \/ 100 * f.num > allowed * f.den

\* C1: transform on a session that was never fit ends in an exception,
\* whatever the input collection (the empty one included).
C1_UnfitTransformRaises ==
    (pc = "returned" /\ op = "transform" /\ ~IsFit) => ret.kind = "error"

\* C2: on a fit session transform returns normally exactly when every
\* spectrum has 100 * missing_fraction <= allowed_missing_percentage; the
\* value equal to the threshold passes.
C2_GateIsNonStrict ==
    (TransformEnded /\ IsFit) =>
        (ret.kind = "ok" <=>
            \A i \in 1..Len(arg) :
                LET f == locals[1].missing_fractions[i]
                IN  f.den # 0
                    /\ 100 * f.num <= session[1].allowed_missing_percentage * f.den)

C2_Witness ==
    /\ TransformEnded /\ IsFit /\ ret.kind = "ok"
    /\ session[1].allowed_missing_percentage = 50
    /\ \E i \in 1..Len(arg) :
          LET f == locals[1].missing_fractions[i]
          IN  f.den # 0 /\ 100 * f.num = 50 * f.den

\* C3: if some spectrum exceeds the threshold, transform raises at the first
\* such spectrum in input order and the caller gets no binned spectrum.
C3_FailFast ==
    (TransformEnded /\ IsFit) =>
        LET bad == { i \in 1..Len(arg) :
                       Exceeds(locals[1].missing_fractions[i],
                               session[1].allowed_missing_percentage) }
        IN  bad # {} =>
                /\ ret.kind = "error"
                /\ ret.error = "AssertionError"
                /\ ret.value = <<>>
                /\ ret.at = Min(bad)
                /\ ret.fraction = locals[1].missing_fractions[Min(bad)]

C3_Witness ==
    /\ TransformEnded /\ IsFit /\ ret.kind = "error"
    /\ Len(arg) = 2 /\ ret.at = 2
    /\ ~Exceeds(locals[1].missing_fractions[1], session[1].allowed_missing_percentage)

\* C4: after fit_transform, known_bins lists the distinct bin numbers of all
\* peaks of the input in strictly ascending order, and peak_to_position maps
\* each of them to its 0-based rank in that list.
C4_VocabularySortedRanks ==
    (pc = "returned" /\ op = "fit_transform") =>
        LET known_bins == session[1].known_bins[1]
            peak_to_position == session[1].peak_to_position[1]
            observed == UNION { Range(ArgBins(i)) : i \in 1..Len(arg) }
        IN  /\ Range(known_bins) = observed
            /\ \A i, j \in 1..Len(known_bins) : i < j => known_bins[i] < known_bins[j]
            /\ DOMAIN peak_to_position = observed
            /\ \A i \in 1..Len(known_bins) : peak_to_position[known_bins[i]] = i - 1

C4_Witness ==
    /\ pc = "returned" /\ op = "fit_transform"
    /\ Len(arg) >= 1 /\ arg[1].mz = <<3, 0>>
    /\ session[1].known_bins = Some(<<0, 1>>)

\* C5: for every fit session to_json succeeds, and from_json of its document
\* succeeds and gives a session with the same parameters and vocabulary.
C5_RoundTrip ==
    /\ (pc = "returned" /\ op = "to_json" /\ IsFit) => ret.kind = "ok"
    /\ (pc = "returned" /\ op = "from_json" /\ json_str[1].known_bins # None) =>
            /\ ret.kind = "ok"
            /\ ret.value[1].mz_bins = json_str[1].mz_bins
            /\ ret.value[1].number_of_bins = json_str[1].number_of_bins
            /\ ret.value[1].mz_min = json_str[1].mz_min
            /\ ret.value[1].mz_max = json_str[1].mz_max
            /\ ret.value[1].peak_scaling = json_str[1].peak_scaling
            /\ ret.value[1].allowed_missing_percentage
                    = json_str[1].allowed_missing_percentage
            /\ ret.value[1].known_bins = json_str[1].known_bins
            /\ DOMAIN ret.value[1].peak_to_position[1]
                    = Range(json_str[1].known_bins[1])

\* C6: a transform that returns gives one binned spectrum per input spectrum,
\* the i-th made from the i-th input (its inchikey, the positions of its
\* known bins), with no metadata but the inchikey.
C6_OnePerInputInOrder ==
    (TransformEnded /\ ret.kind = "ok") =>
        /\ Len(ret.value) = Len(arg)
        /\ \A i \in 1..Len(arg) :
              /\ DOMAIN ret.value[i].metadata = {"inchikey"}
              /\ ret.value[i].metadata.inchikey = arg[i].metadata.inchikey
              /\ DOMAIN ret.value[i].binned_peaks =
                    IF IsFit
                    THEN { session[1].peak_to_position[1][b] :
                             b \in Range(ArgBins(i))
                                     \cap DOMAIN session[1].peak_to_position[1] }
                    ELSE {}

C6_Witness ==
    /\ TransformEnded /\ ret.kind = "ok" /\ Len(arg) = 2
    /\ arg[1].metadata.inchikey # arg[2].metadata.inchikey
    /\ DOMAIN ret.value[1].binned_peaks # DOMAIN ret.value[2].binned_peaks

C8_MissingFraction ==
    (TransformEnded /\ IsFit) =>
        \A i \in 1..Len(arg) :
            LET f == locals[1].missing_fractions[i]
                Known(b) == b \in DOMAIN session[1].peak_to_position[1]
                Unknown(b) == ~Known(b)
                Every(b) == TRUE
                n_known == Cardinality({ k \in 1..Len(ArgBins(i)) : Known(ArgBins(i)[k]) })
            IN  /\ n_known = 0 => (f.den # 0 /\ f.num = f.den)
                /\ (n_known > 0 /\ n_known = Len(ArgBins(i))) =>
                        (f.den # 0 /\ f.num = 0)
                /\ n_known > 0 =>
                        /\ f.den # 0 /\ WeightWhere(i, Every) # 0
                        /\ f.num * WeightWhere(i, Every)
                                = WeightWhere(i, Unknown) * f.den

\* C9: no session exists whose bin edges are empty or not strictly
\* increasing: such a construction raises.
C9_MalformedEdgesRejected ==
    session # None =>
        LET E == session[1].mz_bins.data
        IN  Len(E) > 0 /\ \A i \in 1..(Len(E) - 1) : E[i] < E[i + 1]

\* C10 as stated: the vocabulary is written once, by the first fit, and no
\* later operation changes it.
C10_WrittenOnce ==
    [][IsFit => Vocabulary(session'[1]) = Vocabulary(session[1])]_vars

\* C10: only fit_transform writes the vocabulary, each call replacing it by
\* the vocabulary of its own input; transform, to_json and from_json leave it
\* as it is.
C10_OnlyFitTransformWrites ==
    [][/\ (session # None /\ session' # None
            /\ Vocabulary(session'[1]) # Vocabulary(session[1]))
                => op' = "fit_transform"
       /\ op' = "fit_transform"
                => LET built == unique_peaks_custom(arg', session[1].mz_bins.data)
                   IN  Vocabulary(session'[1])
                          = <<Some(built.class_values), Some(built.unique_peaks)>>]_vars

C10_Witness ==
    /\ vocabulary_writes = "more"
    /\ pc = "returned" /\ op = "transform" /\ ret.kind = "ok"
    /\ Len(arg) > 0
    /\ UNION { Range(ArgBins(i)) : i \in 1..Len(arg) } # Range(session[1].known_bins[1])

\* C11: with allowed_missing_percentage = 100 transform on a fit session
\* accepts every spectrum of every collection: it never raises.
C11_HundredAcceptsAll ==
    (TransformEnded /\ IsFit /\ session[1].allowed_missing_percentage = 100)
        => ret.kind = "ok"

\* The pairs the encoder is to give for the bin numbers and weights of one
\* spectrum: in peak order, one pair for each bin number the vocabulary has.
RECURSIVE PairsInPeakOrder(_, _, _)
PairsInPeakOrder(bins, weights, vocab) ==
    IF bins = <<>> THEN <<>>
    ELSE (IF bins[1] \in DOMAIN vocab
          THEN <<<<vocab[bins[1]], weights[1]>>>> ELSE <<>>)
         \o PairsInPeakOrder(Tail(bins), Tail(weights), vocab)

\* C13: the encoder gives one (position, weight) pair for every peak whose
\* bin is in the vocabulary and none for any other peak, in peak order, with
\* position peaks_vocab[bin] and weight intensity ** peak_scaling.
C13_PairsForKnownPeaksInOrder ==
    (TransformEnded /\ IsFit) =>
        \A i \in 1..Len(arg) :
            locals[1].peak_lists[i] =
                PairsInPeakOrder(ArgBins(i), ArgWeights(i),
                                 session[1].peak_to_position[1])

C13_Witness ==
    /\ TransformEnded /\ IsFit
    /\ \E i \in 1..Len(arg) :
          /\ Len(ArgBins(i)) = 3
          /\ ArgBins(i)[1] \notin DOMAIN session[1].peak_to_position[1]
          /\ ArgBins(i)[2] \in DOMAIN session[1].peak_to_position[1]
          /\ ArgWeights(i)[1] # ArgWeights(i)[2]
          /\ Len(locals[1].peak_lists[i]) = 1

\* C12: a transform call, returning or raising, leaves the session as it
\* was, and the same call made again gives the same result (the same binned
\* spectra or the same exception).
C12_TransformRepeats ==
    [][/\ op' = "transform" => session' = session
       /\ pc' = "returned_again" =>
            /\ arg' = arg
            /\ ret' = ret
            /\ locals' = locals]_vars

C12_Witness ==
    /\ pc = "returned_again" /\ IsFit
    /\ Len(arg) = 2
    /\ ret.kind = "error" /\ ret.at = 2

\* n * w0 + s * (0 + 1 + ... + (n-1)), times 2q for the slope s = p/q: the
\* widths w0 + k*s of the bins 0..n-1 added up.
WidthsBelow2q(n, w0, s) == 2 * s.den * n * w0 + s.num * n * (n - 1)

\* C14: for slope s > 0 and m >= mz_min the linear quantizer gives the n with
\* sum_{k<n} (w0 + k*s) <= m - mz_min < sum_{k<=n} (w0 + k*s), the widths that
\* set_slope_linear adds up to make `number` bins span [mz_min, mz_max]: with
\* its slope mz_max is the start of bin `number`.
C14_LinearBinBounds ==
    /\ (lin.op = "bin_number_array_linear" /\ lin.args.slope.num > 0) =>
            \A k \in 1..Len(lin.args.mz) :
                LET d2q == 2 * lin.args.slope.den * (lin.args.mz[k] - lin.args.mz_min)
                    n == lin.out[k]
                IN  /\ n >= 0
                    /\ WidthsBelow2q(n, lin.args.min_bin_size, lin.args.slope) <= d2q
                    /\ d2q < WidthsBelow2q(n + 1, lin.args.min_bin_size, lin.args.slope)
    /\ (lin.op = "set_slope_linear" /\ lin.out.kind = "ok" /\ lin.out.value[1].num > 0) =>
            /\ lin.out.value[2][2] = lin.args.number
            /\ lin.out.value[2][1] = lin.args.number - 1

\* C15: with the vocabulary that unique_peaks_linear builds from a
\* collection, create_peak_list_linear gives every spectrum of the collection
\* that has a peak and a positive total weight one pair per peak and the
\* missing fraction 0, which passes the gate at allowed_missing_percentage 0.
C15_FitThenEncodeLosesNothing ==
    lin.op = "fit_encode_linear" =>
        \A i \in 1..Len(lin.args.spectrums) :
            LET s == lin.args.spectrums[i]
                total == SumSeq([k \in 1..Len(s.mz) |->
                                    Pow(s.intensities[k], lin.args.peak_scaling)])
                f == lin.out.missing_fractions[i]
            IN  (Len(s.mz) > 0 /\ total > 0) =>
                    /\ Len(lin.out.peak_lists[i]) = Len(s.mz)
                    /\ f.den # 0 /\ f.num = 0
                    /\ gate(f, 0)

C15_Witness ==
    /\ lin.op = "fit_encode_linear"
    /\ Len(lin.args.spectrums) = 2
    /\ Len(lin.out.unique_peaks) >= 2
    /\ \A i \in 1..2 :
          /\ Len(lin.args.spectrums[i].mz) >= 2
          /\ Len(lin.out.peak_lists[i]) = Len(lin.args.spectrums[i].mz)
          /\ lin.out.missing_fractions[i] = Frac(0, SumSeq(
                [k \in 1..Len(lin.args.spectrums[i].mz) |->
                    Pow(lin.args.spectrums[i].intensities[k], lin.args.peak_scaling)]))
    /\ lin.args.spectrums[1] # lin.args.spectrums[2]

====
